---- MODULE Spec2Model ----
(***************************************************************************)
(* auto-crud-api: the route handler set generated for one entity, its      *)
(* middleware chain, the shared response pipelines and the document store. *)
(* Requests are served concurrently: every `await` of a handler is a point *)
(* where another request may run, so each action below is one storage      *)
(* operation together with the synchronous code that follows it up to the  *)
(* next `await`.                                                           *)
(***************************************************************************)
EXTENDS Integers, Sequences, FiniteSets, TLC

\* ------------------------------------------------------------------ bounds
MaxId == 3          \* identifiers the store can hand out

\* the requests of one behaviour; r1 is the one received first
Procs == {"r1", "r2"}
Ids == 1..MaxId

\* ------------------------------------------------------------------ schema
Absent == "absent"               \* the key is not in the object (undefined)
Values == {"", "a", "b"}         \* "" is the falsy value of the field type
FieldVals == Values \cup {Absent}

\* the values requests send for each field
Sent == [email |-> {"", "a", "b"}, nid |-> {"a"}]
Fields == <<"email", "nid">>     \* EntitySchema, in declaration order
FieldSet == {"email", "nid"}
RequiredFields == {"email"}

\* the paths flagged unique, in schema order
UniqueFields == <<"email", "nid">>

Bodies == {b \in [FieldSet -> FieldVals] :
              \A f \in FieldSet : b[f] = Absent \/ b[f] \in Sent[f]}
EmptyBody == [f \in FieldSet |-> Absent]

\* JavaScript truthiness of req.body[field]
Truthy(v) == v # Absent /\ v # ""

BodyKeys(b) == {f \in FieldSet : b[f] # Absent}

\* the schema's validators, run by model.create before the insert: a required
\* string is there and not empty
SchemaValid(b) == \A f \in RequiredFields : Truthy(b[f])

\* ------------------------------------------------------------------ store
NoDoc == [ex |-> FALSE, email |-> Absent, nid |-> Absent]

\* a document that stores the required fields only
DocWithoutNid(b) == [ex |-> TRUE, email |-> b["email"], nid |-> Absent]

Doc(b) == [ex |-> TRUE, email |-> b["email"], nid |-> b["nid"]]

Existing(s) == {i \in Ids : s[i].ex}

\* a collection without the unique indexes
NoIndex(s, b) == {}

\* the unique indexes an insert of `b` would violate; a document without the
\* field is indexed under null, so two documents cannot both lack it
InsertDups(s, b) ==
    {f \in FieldSet : \E j \in Existing(s) : s[j][f] = b[f]}

\* the unique indexes setting the fields of `b` on document `self` would violate
UpdateDups(s, self, b) ==
    {f \in FieldSet : b[f] # Absent /\
        \E j \in Existing(s) \ {self} : s[j][f] = b[f]}

\* model.findOne({[field]: value})
FindOne(s, f, v) == {j \in Existing(s) : s[j][f] = v}

\* the ascending and descending enumerations of a set of ids
RECURSIVE AscSeq(_)
AscSeq(S) ==
    IF S = {} THEN << >>
    ELSE LET m == CHOOSE x \in S : \A y \in S : x <= y
         IN <<m>> \o AscSeq(S \ {m})

RECURSIVE DescSeq(_)
DescSeq(S) ==
    IF S = {} THEN << >>
    ELSE LET m == CHOOSE x \in S : \A y \in S : x >= y
         IN <<m>> \o DescSeq(S \ {m})

SeqToSet(q) == {q[i] : i \in 1..Len(q)}

\* ------------------------------------------------------------------ pipelines
\* A $match object: the _id criterion (a set of ids) and the field criteria.
NoMatch == [hasId |-> FALSE, ids |-> {}, flt |-> EmptyBody]
IdMatch(S) == [hasId |-> TRUE, ids |-> S, flt |-> EmptyBody]
FltMatch(fl) == [hasId |-> FALSE, ids |-> {}, flt |-> fl]

MatchKeys(m) == (IF m.hasId THEN {"_id"} ELSE {}) \cup BodyKeys(m.flt)

\* a merge that replaces the declared criteria
MergeReplace(m, c) == c

\* { ...m, ...c } and Object.assign(m, c): the keys of c win
MergeMatch(m, c) ==
    [hasId |-> m.hasId \/ c.hasId,
     ids |-> IF c.hasId THEN c.ids ELSE m.ids,
     flt |-> [f \in FieldSet |-> IF c.flt[f] # Absent THEN c.flt[f] ELSE m.flt[f]]]

\* a stage object; sid is its identity, own marks a stage no other request holds
Stage(sid, kind, m) == [own |-> FALSE, sid |-> sid, kind |-> kind, m |-> m, n |-> 0]
OwnStage(kind, m, n) == [own |-> TRUE, sid |-> 0, kind |-> kind, m |-> m, n |-> n]

Project(sid) == Stage(sid, "project", NoMatch)

\* stage.$match is truthy
IsMatch(st) == st.kind = "match"

\* Array.prototype.findIndex((stage) => stage.$match); 0 stands for -1
FindIndex(q) ==
    IF \E i \in 1..Len(q) : IsMatch(q[i])
    THEN CHOOSE i \in 1..Len(q) : IsMatch(q[i]) /\ \A j \in 1..(i-1) : ~IsMatch(q[j])
    ELSE 0

\* does document i of store s pass the $match object m
Passes(s, i, m) ==
    /\ m.hasId => i \in m.ids
    /\ \A f \in FieldSet : m.flt[f] # Absent => s[i][f] = m.flt[f]

SelectSeq2(q, s, m) == SelectSeq(q, LAMBDA i : Passes(s, i, m))

Min2(a, b) == IF a < b THEN a ELSE b
Max2(a, b) == IF a > b THEN a ELSE b

\* the stage objects a request holds, read when the command is carried out:
\* a stage shared with the route's declared array shows its current content
Resolve(lp, shared) ==
    [k \in 1..Len(lp) |->
        IF lp[k].own THEN lp[k]
        ELSE LET i == CHOOSE i \in 1..Len(shared) : shared[i].sid = lp[k].sid
             IN shared[i]]

\* model.aggregate(pipeline): the ids of the documents that come out
RECURSIVE RunStages(_, _, _)
RunStages(q, s, docs) ==
    IF q = << >> THEN docs
    ELSE LET st == Head(q)
             out == CASE st.kind = "match" -> SelectSeq2(docs, s, st.m)
                      [] st.kind = "sort" -> DescSeq(SeqToSet(docs))
                      [] st.kind = "skip" -> SubSeq(docs, st.n + 1, Len(docs))
                      [] st.kind = "limit" -> SubSeq(docs, 1, Min2(st.n, Len(docs)))
                      [] OTHER -> docs
         IN RunStages(Tail(q), s, out)

Aggregate(lp, shared, s) == RunStages(Resolve(lp, shared), s, AscSeq(Existing(s)))

\* ------------------------------------------------------------------ routes
Ops == {"create", "dummy", "list", "get", "update",
        "deleteOne", "deleteMany", "deleteAll"}

\* the operations whose handler merges criteria into the declared pipeline
PipeOps == {"create", "dummy", "list", "get", "update"}

Method(op) ==
    CASE op \in {"create", "dummy"} -> "POST"
      [] op \in {"list", "get"} -> "GET"
      [] op = "update" -> "PATCH"
      [] OTHER -> "DELETE"

\* the routes whose paths carry the :id parameter
ParamKeys(op) == IF op \in {"get", "update", "deleteOne"} THEN {"id"} ELSE {}

\* http-status-lite
OK == 200
CREATED == 201
BAD_REQUEST == 400
NOT_FOUND == 404
CONFLICT == 409
UNSUPPORTED_MEDIA_TYPE == 415
INTERNAL_SERVER_ERROR == 500

\* RouteRule tables: ct = rules.request.contentType is declared,
\* dv = dataValidation.  UsersRules is the table of the users entity.
UsersRules ==
    [op \in Ops |->
        [ct |-> op \in {"dummy", "update"}, dv |-> op # "dummy"]]

\* a table whose routes all switch validation off
OpenRules ==
    [op \in Ops |->
        [ct |-> op = "dummy", dv |-> FALSE]]

\* the sub-schemas zodSchemaFactory builds for one handler: the keys each declares
ZodShape(handler, kind) ==
    CASE handler \in {"create", "update"} /\ kind \in {"create", "update"} -> FieldSet
      [] handler = "dummy" /\ kind = "read" -> {"count"}
      [] handler = "get" /\ kind = "read" -> {"id"}
      [] handler = "list" /\ kind = "read" -> {"ids"}
      [] handler = "deleteOne" /\ kind = "delete" -> {"id"}
      [] handler = "deleteMany" /\ kind = "delete" -> {"ids"}
      [] OTHER -> {}

\* getValidationSchema: the sub-schema a method is checked against
SchemaKind(method) ==
    CASE method = "POST" -> "create"
      [] method \in {"PUT", "PATCH"} -> "update"
      [] method = "GET" -> "read"
      [] method = "DELETE" -> "delete"
      [] OTHER -> "create"

\* the router mounted first serves every path of the entity; it is built with
\* the schemas generated for the first route of the table, the create route
ServingHandler == "create"

ValidationShape(op) == ZodShape(ServingHandler, SchemaKind(Method(op)))

\* Object.keys(validationSchema._def.shape).length > 0
HasValidation(op) == ValidationShape(op) # {}

methodsThatRequireBody == {"POST", "PUT", "PATCH"}

\* a chain that checks the body before the content type
MiddlewareBodyFirst(rule, op) ==
    (IF rule.dv /\ Method(op) \in methodsThatRequireBody THEN <<"body">> ELSE << >>)
    \o (IF rule.ct THEN <<"contentType">> ELSE << >>)
    \o (IF rule.dv /\ HasValidation(op) THEN <<"validate">> ELSE << >>)
    \o <<"handler">>

\* the middleware array crudRoutesFactory builds for a route, handler last
Middleware(rule, op) ==
    (IF rule.ct THEN <<"contentType">> ELSE << >>)
    \o (IF rule.dv /\ Method(op) \in methodsThatRequireBody THEN <<"body">> ELSE << >>)
    \o (IF rule.dv /\ HasValidation(op) THEN <<"validate">> ELSE << >>)
    \o <<"handler">>

\* validateContentType: the header is there and includes the expected type
ContentTypeOk(hdr) == hdr = "ok"

\* validateRequestBody: req.body has at least one key
BodyOk(body, extra) == BodyKeys(body) # {} \/ extra

\* validateInput: { ...req.body, ...req.params } parsed by the strict sub-schema
RequestData(op, body, extra) ==
    BodyKeys(body) \cup (IF extra THEN {"unknown"} ELSE {}) \cup ParamKeys(op)

SchemaOk(op, body, extra) ==
    /\ RequestData(op, body, extra) \subseteq ValidationShape(op)
    /\ SchemaKind(Method(op)) = "create" =>
           (RequiredFields \cap ValidationShape(op)) \subseteq BodyKeys(body)

StagePasses(name, op, hdr, body, extra) ==
    CASE name = "contentType" -> ContentTypeOk(hdr)
      [] name = "body" -> BodyOk(body, extra)
      [] name = "validate" -> SchemaOk(op, body, extra)
      [] OTHER -> TRUE

\* express runs the array in order; a stage that answers does not call next()
RECURSIVE RunChain(_, _, _, _, _)
RunChain(chain, op, hdr, body, extra) ==
    IF chain = << >> THEN "none"
    ELSE IF Head(chain) = "handler" THEN "handler"
    ELSE IF StagePasses(Head(chain), op, hdr, body, extra)
         THEN RunChain(Tail(chain), op, hdr, body, extra)
         ELSE Head(chain)

StageStatus(name) ==
    CASE name = "contentType" -> UNSUPPORTED_MEDIA_TYPE
      [] OTHER -> BAD_REQUEST

\* ------------------------------------------------------------------ zodSchemaFactory
\* value.type of a field definition; Mixed stands for a type typeMap has no key for
Kinds == {"String", "Number", "ArrayOfString", "Mixed"}

\* the kinds a FieldSpec can declare
FieldKinds == {"String", "Number", "ArrayOfString"}

\* value.required: undefined, [true, message] or [false, message]
RequiredDecls == {"none", "yes", "no"}

SchemaDefinitions == [FieldSet -> [type : Kinds, required : RequiredDecls]]

\* a request body as the validators see it: per key absent, a value that
\* conforms to the declared type and modifiers, or one that does not
ParseKeys == FieldSet \cup {"unknown"}
ParseData == [ParseKeys -> {Absent, "ok", "bad"}]

\* typeMap[value.type] || z.any(), and Array.isArray(value.type)
TypeMap(type) ==
    CASE type = "String" -> "string"
      [] type = "Number" -> "number"
      [] type = "ArrayOfString" -> "array"
      [] OTHER -> "any"

\* a translation in which no field is mandatory
NeverRequired(def) == FALSE

\* value.required?.[0]
IsRequired(def) == def.required = "yes"

\* the create and update sub-schemas: per key its validator; read and
\* delete are in ZodShape
ZodSchemaFactory(schemaDefinition, handler) ==
    LET on == handler \in {"createDocument", "updateADocument"}
        keys == IF on THEN FieldSet ELSE {}
        base == [f \in keys |-> TypeMap(schemaDefinition[f].type)]
    IN [create |-> [f \in keys |->
                      [base |-> base[f], optional |-> ~IsRequired(schemaDefinition[f])]],
        update |-> [f \in keys |-> [base |-> base[f], optional |-> TRUE]]]

\* one key of z.object: a missing key reaches its validator as undefined,
\* which an optional validator and z.any() accept
Accepts(validator, value) ==
    IF value = Absent THEN validator.optional \/ validator.base = "any"
    ELSE validator.base = "any" \/ value = "ok"

\* z.object(shape).strict().safeParse(data).success
SafeParse(shape, data) ==
    /\ \A k \in ParseKeys : data[k] # Absent => k \in DOMAIN shape
    /\ \A k \in DOMAIN shape : Accepts(shape[k], data[k])

\* no body has been put to a validator
NoParse ==
    [def |-> [f \in FieldSet |-> [type |-> "String", required |-> "none"]],
     data |-> [k \in ParseKeys |-> Absent], create |-> "none", update |-> "none"]

\* ------------------------------------------------------------------ state
VARIABLES
    store,      \* the collection: id -> document
    nextId,     \* the next identifier the driver generates
    cfg,        \* the route table and the pipeline as declared at registration
    pipe,       \* per route, the declared pipeline array as it is now
    proc,       \* per slot, the request it serves
    zod,        \* a body put to the validators generated for a schema definition
    registry,   \* mongoose.models and the last call of mongooseModelFactory
    field       \* a run of generateFieldValue on one String field

vars == <<store, nextId, cfg, pipe, proc, zod, registry, field>>

\* what a response message names: a field and its value, ids, a filter
NoName == [f |-> "", v |-> Absent, ids |-> {}, flt |-> EmptyBody]

Idle ==
    [op |-> "none", pc |-> "idle", by |-> "none", hdr |-> "ok", extra |-> FALSE,
     id |-> 0, body |-> EmptyBody, ids |-> << >>, idx |-> 0,
     st |-> 0, data |-> << >>, named |-> NoName,
     wrote |-> FALSE, touched |-> FALSE, rejected |-> FALSE,
     lp |-> << >>, cnt |-> 0, page |-> 0, limit |-> 0, parsedLimit |-> 0,
     total |-> 0, totalPages |-> 0, got |-> "none", payload |-> {}]

\* the responses built with success = true
Success(status) == status \in {OK, CREATED}

\* the pagination argument of OK: getDocumentsList passes { total, totalPages,
\* currentPage }, every other caller leaves the default {}
Pagination(r, status) ==
    IF r.op = "list" /\ status = OK THEN {"total", "totalPages", "currentPage"} ELSE {}

\* sendResponse: the keys of responsePayload. success is spread in only when
\* it is true; message, data and errors are truthy at every call; pagination
\* is not read
ResponsePayload(success, pagination) ==
    {"meta.route", "status.message", "data", "errors"}
    \cup (IF success THEN {"status.success"} ELSE {})

\* sendResponse through the responseTypes helpers: the request is answered
Respond(r, status, data, named) ==
    [r EXCEPT !.pc = "done", !.st = status, !.data = data, !.named = named,
              !.lp = << >>, !.idx = 0,
              !.payload = ResponsePayload(Success(status), Pagination(r, status))]

\* the pipelines a route table can declare (rules.response.pipeline)
DeclMatch == <<Stage(1, "match", NoMatch), Project(2)>>
DeclProject == <<Project(1)>>
DeclLate ==
    <<Project(1), Stage(2, "match", FltMatch([email |-> "b", nid |-> Absent])),
      Stage(3, "match", FltMatch([email |-> Absent, nid |-> "a"]))>>

\* the tables registered: rules.response is undefined on every route; every
\* route declares a projection; list declares filters and the others { $match: {} }
Configs ==
    { [rules |-> UsersRules, def |-> FALSE, decl |-> [op \in PipeOps |-> << >>]],
      [rules |-> OpenRules, def |-> TRUE, decl |-> [op \in PipeOps |-> DeclProject]],
      [rules |-> OpenRules, def |-> TRUE,
       decl |-> [op \in PipeOps |-> IF op = "list" THEN DeclLate ELSE DeclMatch]] }

InitStores ==
    { [i \in Ids |-> NoDoc],
      [i \in Ids |->
          CASE i = 1 -> Doc([email |-> "a", nid |-> "a"])
            [] i = 2 -> Doc([email |-> "", nid |-> Absent])
            [] OTHER -> NoDoc] }

Init ==
    /\ store \in InitStores
    /\ nextId = Cardinality(Existing(store)) + 1
    /\ cfg \in Configs
    /\ pipe = cfg.decl
    /\ proc = [p \in Procs |-> Idle]
    /\ zod = NoParse /\ registry = << >> /\ field = << >>

\* const responsePipeline = rules?.response?.pipeline || []
ResponsePipeline(op) == IF cfg.def THEN pipe[op] ELSE << >>

\* if (responsePipeline): an array, the empty one included, is truthy
HasPipeline(q) == TRUE

\* the step that builds the response: model.aggregate, or in the else branch
\* getPopulatedDocument
ShapeStep(q) == IF HasPipeline(q) THEN "aggregate" ELSE "populate"

\* model.findById(documentId).populate(referenceFields), and the find of
\* createDummyDocuments: the documents of ids, none projected away
GetPopulatedDocument(s, ids) == AscSeq(ids \cap Existing(s))

\* what the step at pc answers from
Shaped(r, shared, ids) ==
    IF r.pc = "aggregate" THEN Aggregate(r.lp, shared, store)
    ELSE GetPopulatedDocument(store, ids)

\* the references a command keeps to the stage objects of an array
Refs(q) == [k \in 1..Len(q) |-> Stage(q[k].sid, q[k].kind, NoMatch)]

\* ------------------------------------------------------------------ criteria merge
\* pipeline[matchIndex].$match._id = id, and
\* pipeline[matchIndex].$match = { ...pipeline[matchIndex].$match, _id: id }:
\* [...responsePipeline] copies the array, not the stage objects, so the write
\* lands in the stage object the declared array holds
SetMatch(q, i, c) == [q EXCEPT ![i].m = MergeMatch(@, c)]

\* createDocument: the array passed to aggregate is responsePipeline itself
CreateMerge(q, c) ==
    LET i == FindIndex(q)
    IN IF i # 0 THEN SetMatch(q, i, c)
       ELSE <<Stage(Len(q) + 1, "match", c)>> \o q

\* getADocument, updateADocument, createDummyDocuments: unshift on the copy
\* shared = the declared array afterwards, lp = what aggregate receives
CopyMerge(q, c) ==
    LET i == FindIndex(q)
    IN IF i # 0 THEN [shared |-> SetMatch(q, i, c), lp |-> Refs(q)]
       ELSE [shared |-> q, lp |-> <<OwnStage("match", c, 0)>> \o Refs(q)]

\* ------------------------------------------------------------------ create
\* the next unique field, from position i on, whose req.body value is truthy
RECURSIVE NextUnique(_, _)
NextUnique(body, i) ==
    IF i > Len(UniqueFields) THEN 0
    ELSE IF Truthy(body[UniqueFields[i]]) THEN i
    ELSE NextUnique(body, i + 1)

\* createDocument up to its first await
EnterCreate(r) ==
    LET i == NextUnique(r.body, 1)
    IN [r EXCEPT !.pc = IF i = 0 THEN "create" ELSE "findOne", !.idx = i]

\* if (existingDoc)
CreateConflict(found) == found # {}

\* await model.findOne({ [field]: req.body[field] }) of createDocument
CreateFindOne(p) ==
    LET r == proc[p]
        f == UniqueFields[r.idx]
        found == FindOne(store, f, r.body[f])
        i == NextUnique(r.body, r.idx + 1)
        t == [r EXCEPT !.touched = TRUE]
    IN /\ r.op = "create" /\ r.pc = "findOne"
       /\ proc' = [proc EXCEPT ![p] =
              IF CreateConflict(found)
              THEN Respond(t, CONFLICT, << >>, [NoName EXCEPT !.f = f, !.v = r.body[f]])
              ELSE [t EXCEPT !.pc = IF i = 0 THEN "create" ELSE "findOne", !.idx = i]]
       /\ UNCHANGED <<store, nextId, cfg, pipe, zod, registry, field>>

\* asyncHandler, error.code === 11000: the message names the field, the
\* errors object the field and error.keyValue[field]
DuplicateKey(r, f) ==
    Respond([r EXCEPT !.rejected = TRUE], CONFLICT, << >>,
            [NoName EXCEPT !.f = f, !.v = r.body[f]])

\* asyncHandler, error instanceof mongoose.Error.ValidationError
ValidationError(r) == Respond(r, BAD_REQUEST, << >>, NoName)

\* await model.create(req.body), then the merge of { _id: doc._id }
CreateInsert(p) ==
    LET r == proc[p]
        dups == InsertDups(store, r.body)
        t == [r EXCEPT !.touched = TRUE]
        q == CreateMerge(ResponsePipeline("create"), IdMatch({nextId}))
    IN /\ r.op = "create" /\ r.pc = "create"
       /\ IF ~SchemaValid(r.body)
          THEN /\ proc' = [proc EXCEPT ![p] = ValidationError(r)]
               /\ UNCHANGED <<store, nextId, pipe>>
          ELSE IF dups # {}
          THEN /\ \E f \in dups : proc' = [proc EXCEPT ![p] = DuplicateKey(t, f)]
               /\ UNCHANGED <<store, nextId, pipe>>
          ELSE /\ nextId <= MaxId
               /\ store' = [store EXCEPT ![nextId] = Doc(r.body)]
               /\ nextId' = nextId + 1
               /\ pipe' = IF cfg.def THEN [pipe EXCEPT !["create"] = q] ELSE pipe
               /\ proc' = [proc EXCEPT ![p] =
                      [t EXCEPT !.pc = ShapeStep(q), !.id = nextId, !.wrote = TRUE,
                                !.lp = IF cfg.def THEN Refs(q)
                                       ELSE [k \in 1..Len(q) |-> [q[k] EXCEPT !.own = TRUE]]]]
       /\ UNCHANGED <<cfg, zod, registry, field>>

\* await model.aggregate(responsePipeline) of createDocument
CreateAggregate(p) ==
    LET r == proc[p]
        res == Shaped(r, ResponsePipeline("create"), {r.id})
    IN /\ r.op = "create" /\ r.pc \in {"aggregate", "populate"}
       /\ proc' = [proc EXCEPT ![p] =
              IF Len(res) = 0
              THEN Respond(r, INTERNAL_SERVER_ERROR, << >>, NoName)
              ELSE Respond(r, CREATED, <<res[1]>>, NoName)]
       /\ UNCHANGED <<store, nextId, cfg, pipe, zod, registry, field>>

\* ------------------------------------------------------------------ get by id
\* getADocument up to its await
EnterGet(r) ==
    LET m == CopyMerge(ResponsePipeline("get"), IdMatch({r.id}))
    IN [r |-> [r EXCEPT !.pc = ShapeStep(ResponsePipeline("get")), !.lp = m.lp],
        shared |-> m.shared]

\* await model.aggregate(pipeline) of getADocument
GetAggregate(p) ==
    LET r == proc[p]
        res == Shaped(r, ResponsePipeline("get"), {r.id})
        t == [r EXCEPT !.touched = TRUE]
    IN /\ r.op = "get" /\ r.pc \in {"aggregate", "populate"}
       /\ proc' = [proc EXCEPT ![p] =
              IF Len(res) = 0
              THEN Respond(t, NOT_FOUND, << >>, NoName)
              ELSE Respond(t, OK, <<res[1]>>, NoName)]
       /\ UNCHANGED <<store, nextId, cfg, pipe, zod, registry, field>>

\* ------------------------------------------------------------------ update
\* updateADocument up to its first await
EnterUpdate(r) == [r EXCEPT !.pc = "findById"]

\* await model.findById(docId)
UpdateFindById(p) ==
    LET r == proc[p]
        i == NextUnique(r.body, 1)
        t == [r EXCEPT !.touched = TRUE]
    IN /\ r.op = "update" /\ r.pc = "findById"
       /\ proc' = [proc EXCEPT ![p] =
              IF ~store[r.id].ex
              THEN Respond(t, NOT_FOUND, << >>, NoName)
              ELSE [t EXCEPT !.pc = IF i = 0 THEN "updateOne" ELSE "findOne", !.idx = i]]
       /\ UNCHANGED <<store, nextId, cfg, pipe, zod, registry, field>>

\* if (conflictingDoc || (conflictingDoc?.length && conflictingDoc._id.toString() !== docId))
UpdateConflict(found, docId) == found # {}

\* await model.findOne({ [field]: req.body[field] }) of updateADocument
UpdateFindOne(p) ==
    LET r == proc[p]
        f == UniqueFields[r.idx]
        found == FindOne(store, f, r.body[f])
        i == NextUnique(r.body, r.idx + 1)
    IN /\ r.op = "update" /\ r.pc = "findOne"
       /\ proc' = [proc EXCEPT ![p] =
              IF UpdateConflict(found, r.id)
              THEN Respond(r, CONFLICT, << >>, [NoName EXCEPT !.f = f, !.v = r.body[f]])
              ELSE [r EXCEPT !.pc = IF i = 0 THEN "updateOne" ELSE "findOne", !.idx = i]]
       /\ UNCHANGED <<store, nextId, cfg, pipe, zod, registry, field>>

\* an update that replaces the document by the body
Replaced(d, body) == [d EXCEPT !.email = body["email"], !.nid = body["nid"]]

\* the document after model.updateOne({ _id }, body): the fields of body are set
Patched(d, body) ==
    [d EXCEPT !.email = IF body["email"] # Absent THEN body["email"] ELSE @,
              !.nid = IF body["nid"] # Absent THEN body["nid"] ELSE @]

\* an updateOne that applies the change before the index rejects it
UpdateOneThenFail(s, id, body) ==
    [s |-> IF s[id].ex THEN [s EXCEPT ![id] = Patched(@, body)] ELSE s,
     err |-> IF s[id].ex THEN UpdateDups(s, id, body) ELSE {}]

\* model.updateOne({ _id: id }, body): the store afterwards and the indexes
\* that rejected the write
UpdateOne(s, id, body) ==
    LET dups == IF s[id].ex THEN UpdateDups(s, id, body) ELSE {}
    IN [s |-> IF s[id].ex /\ dups = {} THEN [s EXCEPT ![id] = Patched(@, body)] ELSE s,
        err |-> dups]

\* await model.updateOne({ _id: docId }, req.body), then the merge of { _id }
UpdateWrite(p) ==
    LET r == proc[p]
        res == UpdateOne(store, r.id, r.body)
        m == CopyMerge(ResponsePipeline("update"), IdMatch({r.id}))
        t == [r EXCEPT !.wrote = res.s # store]
    IN /\ r.op = "update" /\ r.pc = "updateOne"
       /\ store' = res.s
       /\ IF res.err # {}
          THEN /\ \E f \in res.err : proc' = [proc EXCEPT ![p] = DuplicateKey(t, f)]
               /\ UNCHANGED pipe
          ELSE /\ pipe' = IF cfg.def THEN [pipe EXCEPT !["update"] = m.shared] ELSE pipe
               /\ proc' = [proc EXCEPT ![p] =
                      [t EXCEPT !.pc = ShapeStep(ResponsePipeline("update")), !.lp = m.lp]]
       /\ UNCHANGED <<nextId, cfg, zod, registry, field>>

\* await model.aggregate(pipeline) of updateADocument
UpdateAggregate(p) ==
    LET r == proc[p]
        res == Shaped(r, ResponsePipeline("update"), {r.id})
    IN /\ r.op = "update" /\ r.pc \in {"aggregate", "populate"}
       /\ proc' = [proc EXCEPT ![p] =
              IF Len(res) = 0
              THEN Respond(r, NOT_FOUND, << >>, NoName)
              ELSE Respond(r, OK, <<res[1]>>, NoName)]
       /\ UNCHANGED <<store, nextId, cfg, pipe, zod, registry, field>>

\* ------------------------------------------------------------------ delete one
EnterDeleteOne(r) == [r EXCEPT !.pc = "findByIdAndDelete"]

\* a lookup by id that leaves the document in place
FindByIdAndKeep(s, id) == [doc |-> s[id].ex, s |-> s]

\* model.findByIdAndDelete(id): whether a document was found, the store afterwards
FindByIdAndDelete(s, id) == [doc |-> s[id].ex, s |-> [s EXCEPT ![id] = NoDoc]]

\* await model.findByIdAndDelete(docId)
DeleteOne(p) ==
    LET r == proc[p]
        res == FindByIdAndDelete(store, r.id)
        t == [r EXCEPT !.touched = TRUE, !.wrote = res.s # store]
    IN /\ r.op = "deleteOne" /\ r.pc = "findByIdAndDelete"
       /\ store' = res.s
       /\ proc' = [proc EXCEPT ![p] =
              IF ~res.doc THEN Respond(t, NOT_FOUND, << >>, NoName)
              ELSE Respond(t, OK, << >>, NoName)]
       /\ UNCHANGED <<nextId, cfg, pipe, zod, registry, field>>

\* ------------------------------------------------------------------ delete many
\* schema.idsSchema.safeParse(req.query).success: ids is present and, split at
\* the commas, a non-empty array of well-formed ObjectIds; 0 stands for an
\* element that is not one, the empty string of ?ids= included
IdsSchemaOk(ids) == ids # << >> /\ \A k \in 1..Len(ids) : ids[k] \in Ids

\* deleteDocumentList up to its await: on a failed parse it calls
\* BAD_REQUEST(res, {}, message), which is (req, res, contentType, message), so
\* sendResponse calls status() on {} and throws; asyncHandler answers 500.
\* Otherwise req.query.ids.split(',')
EnterDeleteMany(r) ==
    IF ~IdsSchemaOk(r.ids)
    THEN Respond(r, INTERNAL_SERVER_ERROR, << >>, NoName)
    ELSE [r EXCEPT !.pc = "find"]

\* the message of the NOT_FOUND answer: `Some ... IDs do not exist. Deletion aborted.`
MissingNamed(ids, found) == NoName

\* a lookup that removes what it finds
FindAndDelete(s, ids) ==
    [docs |-> SeqToSet(ids) \cap Existing(s),
     s |-> [i \in Ids |-> IF i \in SeqToSet(ids) THEN NoDoc ELSE s[i]]]

\* model.find({ _id: { $in: ids } }): the documents found, the store afterwards
Find(s, ids) == [docs |-> SeqToSet(ids) \cap Existing(s), s |-> s]

\* await model.find({ _id: { $in: docIds } })
DeleteManyFind(p) ==
    LET r == proc[p]
        res == Find(store, r.ids)
        t == [r EXCEPT !.touched = TRUE, !.wrote = res.s # store]
    IN /\ r.op = "deleteMany" /\ r.pc = "find"
       /\ store' = res.s
       /\ proc' = [proc EXCEPT ![p] =
              IF Cardinality(res.docs) # Len(r.ids)
              THEN Respond(t, NOT_FOUND, << >>, MissingNamed(r.ids, res.docs))
              ELSE [t EXCEPT !.pc = "deleteMany"]]
       /\ UNCHANGED <<nextId, cfg, pipe, zod, registry, field>>

\* await model.deleteMany({ _id: { $in: docIds } })
DeleteManyDelete(p) ==
    LET r == proc[p]
        hit == SeqToSet(r.ids) \cap Existing(store)
    IN /\ r.op = "deleteMany" /\ r.pc = "deleteMany"
       /\ store' = [i \in Ids |-> IF i \in hit THEN NoDoc ELSE store[i]]
       /\ proc' = [proc EXCEPT ![p] =
              Respond([r EXCEPT !.wrote = r.wrote \/ hit # {}], OK, << >>, NoName)]
       /\ UNCHANGED <<nextId, cfg, pipe, zod, registry, field>>

\* ------------------------------------------------------------------ delete all
EnterDeleteAll(r) == [r EXCEPT !.pc = "find"]

\* await model.find()
DeleteAllFind(p) ==
    LET r == proc[p]
        n == Cardinality(Existing(store))
        t == [r EXCEPT !.touched = TRUE]
    IN /\ r.op = "deleteAll" /\ r.pc = "find"
       /\ proc' = [proc EXCEPT ![p] =
              IF n = 0
              THEN Respond(t, NOT_FOUND, << >>, NoName)
              ELSE [t EXCEPT !.pc = "deleteMany", !.cnt = n]]
       /\ UNCHANGED <<store, nextId, cfg, pipe, zod, registry, field>>

\* a comparison that accepts every deleted count
DeletionNeverFailed(deletedCount, observed) == FALSE

\* !deletionResult || deletionResult.deletedCount !== existingDocuments.length
DeletionFailed(deletedCount, observed) == deletedCount # observed

\* await model.deleteMany(), then the comparison of deletedCount
DeleteAllDelete(p) ==
    LET r == proc[p]
        deletedCount == Cardinality(Existing(store))
        t == [r EXCEPT !.wrote = deletedCount > 0]
    IN /\ r.op = "deleteAll" /\ r.pc = "deleteMany"
       /\ store' = [i \in Ids |-> NoDoc]
       /\ proc' = [proc EXCEPT ![p] =
              IF DeletionFailed(deletedCount, r.cnt)
              THEN Respond(t, INTERNAL_SERVER_ERROR, << >>, NoName)
              ELSE Respond(t, OK, << >>, NoName)]
       /\ UNCHANGED <<nextId, cfg, pipe, zod, registry, field>>

\* ------------------------------------------------------------------ list
PageVals == {1, 2}               \* ?page=
LimitVals == {-1, 0, 1, 2}       \* ?limit=
ListFilters == {EmptyBody, [email |-> "a", nid |-> Absent]}

\* Object.fromEntries(Object.entries(filters).filter(([, value]) => value !== ''))
FilterQuery(flt) == [f \in FieldSet |-> IF flt[f] = "" THEN Absent ELSE flt[f]]

\* JSON.parse(JSON.stringify(responsePipeline)): every stage object is new
DeepClone(q) == [k \in 1..Len(q) |-> [q[k] EXCEPT !.own = TRUE]]

\* getDocumentsList: Object.assign(matchStage.$match, filterQuery) on the clone,
\* or pipeline.unshift({ $match: filterQuery })
ListMerge(q, c) ==
    LET cl == DeepClone(q)
        i == FindIndex(cl)
    IN IF i # 0 THEN SetMatch(cl, i, c)
       ELSE <<OwnStage("match", c, 0)>> \o cl

\* the $sort, $skip and $limit stages pushed after the declared ones
ListPipeline(q, fq, page, limit) ==
    ListMerge(q, FltMatch(fq))
    \o <<OwnStage("sort", NoMatch, 0),
         OwnStage("skip", NoMatch, (page - 1) * limit),
         OwnStage("limit", NoMatch, limit)>>

\* getDocumentsList up to its first await
EnterList(r) ==
    LET q == ResponsePipeline("list")
        page == Max2(1, r.page)
        limit == Max2(1, r.limit)
        fq == FilterQuery(r.body)
        t == [r EXCEPT !.page = page, !.parsedLimit = limit, !.body = fq]
    IN IF Len(q) > 0
       THEN [t EXCEPT !.pc = "aggregatePair", !.lp = ListPipeline(q, fq, page, limit)]
       ELSE [t EXCEPT !.pc = "find"]

\* Math.ceil(totalCount / parsedLimit)
TotalPages(total, limit) == (total + limit - 1) \div limit

\* an answer that is not-found only when nothing is counted
ListAnswerByTotal(r, docs, total) ==
    IF total = 0
    THEN Respond(r, NOT_FOUND, << >>, [NoName EXCEPT !.flt = r.body])
    ELSE Respond([r EXCEPT !.total = total,
                           !.totalPages = TotalPages(total, r.parsedLimit)],
                 OK, docs, NoName)

\* the answer of getDocumentsList once docs and totalCount are known; the
\* not-found message carries JSON.stringify(filterQuery)
ListAnswer(r, docs, total) ==
    IF Len(docs) = 0
    THEN Respond(r, NOT_FOUND, << >>, [NoName EXCEPT !.flt = r.body])
    ELSE Respond([r EXCEPT !.total = total,
                           !.totalPages = TotalPages(total, r.parsedLimit)],
                 OK, docs, NoName)

\* model.aggregate(pipeline), one of the two commands of Promise.all
ListAggregateDocs(p) ==
    LET r == proc[p]
        docs == Aggregate(r.lp, << >>, store)
        t == [r EXCEPT !.touched = TRUE]
    IN /\ r.op = "list" /\ r.pc = "aggregatePair" /\ r.got \in {"none", "count"}
       /\ proc' = [proc EXCEPT ![p] =
              IF r.got = "count" THEN ListAnswer(t, docs, r.total)
              ELSE [t EXCEPT !.got = "docs", !.data = docs]]
       /\ UNCHANGED <<store, nextId, cfg, pipe, zod, registry, field>>

\* model.aggregate([...pipeline, { $count: 'totalCount' }]), the other command;
\* totalCountResult?.[0]?.totalCount || 0
ListAggregateCount(p) ==
    LET r == proc[p]
        total == Len(Aggregate(r.lp, << >>, store))
        t == [r EXCEPT !.touched = TRUE]
    IN /\ r.op = "list" /\ r.pc = "aggregatePair" /\ r.got \in {"none", "docs"}
       /\ proc' = [proc EXCEPT ![p] =
              IF r.got = "docs" THEN ListAnswer(t, r.data, total)
              ELSE [t EXCEPT !.got = "count", !.total = total]]
       /\ UNCHANGED <<store, nextId, cfg, pipe, zod, registry, field>>

\* the documents that match filterQuery
Matching(s, fq) == {i \in Existing(s) : Passes(s, i, FltMatch(fq))}

\* await model.find(filterQuery).populate().sort(sort).skip().limit()
ListFind(p) ==
    LET r == proc[p]
        all == DescSeq(Matching(store, r.body))
        from == (r.page - 1) * r.parsedLimit
        docs == SubSeq(all, from + 1, Min2(from + r.parsedLimit, Len(all)))
    IN /\ r.op = "list" /\ r.pc = "find"
       /\ proc' = [proc EXCEPT ![p] =
              [r EXCEPT !.pc = "countDocuments", !.data = docs, !.touched = TRUE]]
       /\ UNCHANGED <<store, nextId, cfg, pipe, zod, registry, field>>

\* a count of every document, whatever the filter
ListCountAll(p) ==
    LET r == proc[p]
        total == Cardinality(Existing(store))
    IN /\ r.op = "list" /\ r.pc = "countDocuments"
       /\ proc' = [proc EXCEPT ![p] = ListAnswer(r, r.data, total)]
       /\ UNCHANGED <<store, nextId, cfg, pipe, zod, registry, field>>

\* await model.countDocuments(filterQuery)
ListCountDocuments(p) ==
    LET r == proc[p]
        total == Cardinality(Matching(store, r.body))
    IN /\ r.op = "list" /\ r.pc = "countDocuments"
       /\ proc' = [proc EXCEPT ![p] = ListAnswer(r, r.data, total)]
       /\ UNCHANGED <<store, nextId, cfg, pipe, zod, registry, field>>

\* ------------------------------------------------------------------ create dummy
MaxCount == 2                    \* ?count= of create-dummy
GenValues == {"a", "b"}          \* what generateFieldValue can draw
GenBodies == [FieldSet -> GenValues]

\* createDummyDocuments up to its await
EnterDummy(r) ==
    IF r.cnt <= 0
    THEN Respond(r, BAD_REQUEST, << >>, NoName)
    ELSE [r EXCEPT !.pc = "insertMany"]

\* model.insertMany(docs, { ordered: false }): every document is tried, in
\* order; ok = the positions admitted, s = the store afterwards
RECURSIVE InsertMany(_, _, _, _)
InsertMany(s, gen, k, first) ==
    IF k > Len(gen) THEN [s |-> s, ok |-> {}]
    ELSE IF InsertDups(s, gen[k]) # {}
         THEN InsertMany(s, gen, k + 1, first)
         ELSE LET rest == InsertMany([s EXCEPT ![first + k - 1] = Doc(gen[k])],
                                     gen, k + 1, first)
              IN [s |-> rest.s, ok |-> rest.ok \cup {first + k - 1}]

\* what becomes of a request whose insertMany threw the bulk write error:
\* asyncHandler reads error.keyPattern, which a bulk write error does not carry,
\* so its catch block throws; the router's error handler answers 500 or the
\* request stays unanswered
BulkErrorOutcomes(r) ==
    { Respond([r EXCEPT !.rejected = TRUE], INTERNAL_SERVER_ERROR, << >>, NoName),
      [r EXCEPT !.rejected = TRUE, !.pc = "unanswered"] }

\* await model.insertMany(dummyData, { ordered: false }), then the merge of
\* { _id: { $in: insertedIds } }
DummyInsertMany(p) ==
    LET r == proc[p]
    IN /\ r.op = "dummy" /\ r.pc = "insertMany"
       /\ nextId + r.cnt - 1 <= MaxId
       /\ \E gen \in [1..r.cnt -> GenBodies] :
            LET res == InsertMany(store, gen, 1, nextId)
                m == CopyMerge(ResponsePipeline("dummy"), IdMatch(res.ok))
                t == [r EXCEPT !.touched = TRUE, !.wrote = res.ok # {}]
            IN /\ store' = res.s
               /\ nextId' = nextId + r.cnt
               /\ IF Cardinality(res.ok) < r.cnt
                  THEN /\ \E o \in BulkErrorOutcomes(t) : proc' = [proc EXCEPT ![p] = o]
                       /\ UNCHANGED pipe
                  ELSE /\ pipe' = IF cfg.def THEN [pipe EXCEPT !["dummy"] = m.shared]
                                  ELSE pipe
                       /\ proc' = [proc EXCEPT ![p] =
                              [t EXCEPT !.pc = ShapeStep(ResponsePipeline("dummy")),
                                        !.ids = AscSeq(res.ok), !.lp = m.lp]]
       /\ UNCHANGED <<cfg, zod, registry, field>>

\* await model.aggregate(pipeline) of createDummyDocuments
DummyAggregate(p) ==
    LET r == proc[p]
        res == Shaped(r, ResponsePipeline("dummy"), SeqToSet(r.ids))
    IN /\ r.op = "dummy" /\ r.pc \in {"aggregate", "populate"}
       /\ proc' = [proc EXCEPT ![p] = Respond(r, CREATED, res, NoName)]
       /\ UNCHANGED <<store, nextId, cfg, pipe, zod, registry, field>>

\* ------------------------------------------------------------------ dispatch
Hdrs == {"ok", "missing"}        \* the request's Content-Type header

\* the lists of ?ids=, up to order: distinct ids, or one id given twice
IdLists ==
    {AscSeq(S) : S \in (SUBSET Ids) \ {{}}} \cup {<<i, i>> : i \in Ids}

\* ?ids= missing, empty, or with an element that is not a well-formed ObjectId
BadIdLists == {<< >>, <<0>>, <<1, 0>>}

\* the handler of a route up to its first await; shared = the declared array
\* of the route afterwards
Enter(r) ==
    CASE r.op = "create" -> [r |-> EnterCreate(r), shared |-> ResponsePipeline("create")]
      [] r.op = "get" -> EnterGet(r)
      [] r.op = "update" -> [r |-> EnterUpdate(r), shared |-> ResponsePipeline("update")]
      [] r.op = "deleteOne" -> [r |-> EnterDeleteOne(r), shared |-> << >>]
      [] r.op = "deleteMany" -> [r |-> EnterDeleteMany(r), shared |-> << >>]
      [] r.op = "deleteAll" -> [r |-> EnterDeleteAll(r), shared |-> << >>]
      [] r.op = "list" -> [r |-> EnterList(r), shared |-> ResponsePipeline("list")]
      [] r.op = "dummy" -> [r |-> EnterDummy(r), shared |-> ResponsePipeline("dummy")]

\* the identifiers the request will ask the driver for
Need(r) ==
    CASE r.op = "create" /\ r.pc \in {"idle", "findOne", "create"} -> 1
      [] r.op = "dummy" /\ r.pc \in {"idle", "insertMany"} -> r.cnt
      [] OTHER -> 0

\* the identifiers the requests being served will still ask for
RECURSIVE Reserved(_)
Reserved(P) ==
    IF P = {} THEN 0
    ELSE LET q == CHOOSE x \in P : TRUE
         IN Need(proc[q]) + Reserved(P \ {q})

\* router[method](path, ...middleware): the chain of the route, then its handler
Arrive(p, r) ==
    LET by == RunChain(Middleware(cfg.rules[r.op], r.op), r.op, r.hdr, r.body, r.extra)
        t == [r EXCEPT !.by = by]
        e == Enter(t)
    IN /\ proc[p].pc = "idle"
       /\ p = "r2" => proc["r1"].pc # "idle"
       /\ by = "handler" => nextId + Reserved(Procs \ {p}) + Need(r) - 1 <= MaxId
       /\ IF by # "handler"
          THEN /\ proc' = [proc EXCEPT ![p] = Respond(t, StageStatus(by), << >>, NoName)]
               /\ UNCHANGED pipe
          ELSE /\ proc' = [proc EXCEPT ![p] = e.r]
               /\ pipe' = IF cfg.def /\ r.op \in PipeOps
                          THEN [pipe EXCEPT ![r.op] = e.shared] ELSE pipe
       /\ UNCHANGED <<store, nextId, cfg, zod, registry, field>>

\* the inputs the chain of a route reads
HdrsOf(op) == IF cfg.rules[op].ct THEN Hdrs ELSE {"ok"}
ExtrasOf(op) ==
    IF op \in {"create", "deleteOne"} /\ cfg.rules[op].dv THEN BOOLEAN ELSE {FALSE}

Request(op, hdr, extra) == [Idle EXCEPT !.op = op, !.hdr = hdr, !.extra = extra]

CreateRequest(p) ==
    \E hdr \in HdrsOf("create"), extra \in ExtrasOf("create"), body \in Bodies :
        Arrive(p, [Request("create", hdr, extra) EXCEPT !.body = body])

GetRequest(p) ==
    \E hdr \in HdrsOf("get"), extra \in ExtrasOf("get"), id \in Ids :
        Arrive(p, [Request("get", hdr, extra) EXCEPT !.id = id])

UpdateRequest(p) ==
    \E hdr \in HdrsOf("update"), extra \in ExtrasOf("update"), id \in Ids, body \in Bodies :
        Arrive(p, [Request("update", hdr, extra) EXCEPT !.id = id, !.body = body])

DeleteOneRequest(p) ==
    \E hdr \in HdrsOf("deleteOne"), extra \in ExtrasOf("deleteOne"), id \in Ids :
        Arrive(p, [Request("deleteOne", hdr, extra) EXCEPT !.id = id])

DeleteManyRequest(p) ==
    \E hdr \in HdrsOf("deleteMany"), extra \in ExtrasOf("deleteMany"), ids \in IdLists \cup BadIdLists :
        Arrive(p, [Request("deleteMany", hdr, extra) EXCEPT !.ids = ids])

DeleteAllRequest(p) ==
    \E hdr \in HdrsOf("deleteAll"), extra \in ExtrasOf("deleteAll") :
        Arrive(p, Request("deleteAll", hdr, extra))

ListRequest(p) ==
    \E hdr \in HdrsOf("list"), extra \in ExtrasOf("list"),
       page \in PageVals, limit \in LimitVals, flt \in ListFilters :
        Arrive(p, [Request("list", hdr, extra) EXCEPT
                      !.page = page, !.limit = limit, !.body = flt])

DummyRequest(p) ==
    \E hdr \in HdrsOf("dummy"), extra \in ExtrasOf("dummy"), n \in 0..MaxCount :
        Arrive(p, [Request("dummy", hdr, extra) EXCEPT !.cnt = n])

Next ==
    \E p \in Procs :
        \/ CreateRequest(p) \/ CreateFindOne(p) \/ CreateInsert(p) \/ CreateAggregate(p)
        \/ GetRequest(p) \/ GetAggregate(p)
        \/ UpdateRequest(p) \/ UpdateFindById(p) \/ UpdateFindOne(p)
        \/ UpdateWrite(p) \/ UpdateAggregate(p)
        \/ DeleteOneRequest(p) \/ DeleteOne(p)
        \/ DeleteManyRequest(p) \/ DeleteManyFind(p) \/ DeleteManyDelete(p)
        \/ DeleteAllRequest(p) \/ DeleteAllFind(p) \/ DeleteAllDelete(p)
        \/ ListRequest(p) \/ ListAggregateDocs(p) \/ ListAggregateCount(p)
        \/ ListFind(p) \/ ListCountDocuments(p)
        \/ DummyRequest(p) \/ DummyInsertMany(p) \/ DummyAggregate(p)

Spec == Init /\ [][Next]_vars

\* the continuation of the request of slot p after an await: the storage
\* command it waits for
Serve(p) ==
    \/ CreateFindOne(p) \/ CreateInsert(p) \/ CreateAggregate(p)
    \/ GetAggregate(p)
    \/ UpdateFindById(p) \/ UpdateFindOne(p) \/ UpdateWrite(p) \/ UpdateAggregate(p)
    \/ DeleteOne(p)
    \/ DeleteManyFind(p) \/ DeleteManyDelete(p)
    \/ DeleteAllFind(p) \/ DeleteAllDelete(p)
    \/ ListAggregateDocs(p) \/ ListAggregateCount(p)
    \/ ListFind(p) \/ ListCountDocuments(p)
    \/ DummyInsertMany(p) \/ DummyAggregate(p)

\* the schema definitions and bodies the validators are tried on
InitZod ==
    /\ store = [i \in Ids |-> NoDoc]
    /\ nextId = 1
    /\ cfg \in {c \in Configs : ~c.def}
    /\ pipe = cfg.decl
    /\ proc = [p \in Procs |-> Idle]
    /\ zod \in [def : SchemaDefinitions, data : ParseData,
                 create : {"none"}, update : {"none"}]
    /\ registry = << >> /\ field = << >>

Verdict(success) == IF success THEN "accepted" ELSE "rejected"

\* the create sub-schema generated for createDocument parses the body
ValidateCreate ==
    /\ zod.create = "none"
    /\ zod' = [zod EXCEPT !.create =
                  Verdict(SafeParse(ZodSchemaFactory(zod.def, "createDocument").create,
                                    zod.data))]
    /\ UNCHANGED <<store, nextId, cfg, pipe, proc, registry, field>>

\* the update sub-schema generated for updateADocument parses the same body
ValidateUpdate ==
    /\ zod.update = "none"
    /\ zod' = [zod EXCEPT !.update =
                  Verdict(SafeParse(ZodSchemaFactory(zod.def, "updateADocument").update,
                                    zod.data))]
    /\ UNCHANGED <<store, nextId, cfg, pipe, proc, registry, field>>

NextZod == ValidateCreate \/ ValidateUpdate

ZodSpec == InitZod /\ [][NextZod]_vars

\* ------------------------------------------------------------------ mongooseModelFactory
ModelNames == {"users", "admins", "products"}

\* the schema definitions an entity name is registered with
RegSchemas ==
    {d \in SchemaDefinitions :
        d["email"].type = "String" /\ d["nid"] = [type |-> "String", required |-> "none"]}

\* models with one more name declared, or one name declared anew
Declared(models, modelName, schemaDefinition) ==
    [n \in DOMAIN models \cup {modelName} |->
        IF n = modelName THEN schemaDefinition ELSE models[n]]

\* a factory that declares the model anew on every call
ModelRedeclared(models, modelName, schemaDefinition) ==
    [models |-> Declared(models, modelName, schemaDefinition),
     model |-> schemaDefinition]

\* mongoose.models[modelName] || model(modelName, schema): the registry
\* afterwards and the model returned, a model being known by its schema
MongooseModelFactory(models, modelName, schemaDefinition) ==
    IF modelName \in DOMAIN models
    THEN [models |-> models, model |-> models[modelName]]
    ELSE [models |-> Declared(models, modelName, schemaDefinition),
          model |-> schemaDefinition]

\* no model is registered and the factory has not been called
InitRegistry ==
    /\ store = [i \in Ids |-> NoDoc]
    /\ nextId = 1
    /\ cfg \in {c \in Configs : ~c.def}
    /\ pipe = cfg.decl
    /\ proc = [p \in Procs |-> Idle]
    /\ zod = NoParse /\ field = << >>
    /\ registry = [models |-> << >>, first |-> << >>, calls |-> << >>]

\* createMongooseModel(entityName, schema); first keeps the schema of the
\* first call for each name, calls the last call and the model it returned
CreateMongooseModel ==
    /\ \E name \in ModelNames, def \in RegSchemas :
          LET res == MongooseModelFactory(registry.models, name, def)
          IN registry' =
                 [models |-> res.models,
                  first |-> IF name \in DOMAIN registry.first
                            THEN registry.first
                            ELSE Declared(registry.first, name, def),
                  calls |-> <<[name |-> name, passed |-> def, model |-> res.model]>>]
    /\ UNCHANGED <<store, nextId, cfg, pipe, proc, zod, field>>

RegistrySpec == InitRegistry /\ [][CreateMongooseModel]_vars

\* ------------------------------------------------------------------ generateFieldValue
DefaultMinLength == 5
DefaultMaxLength == 20

\* a text of words of the given lengths, one space between two words
RECURSIVE Text(_)
Text(lens) ==
    IF Len(lens) = 1 THEN [i \in 1..lens[1] |-> "w"]
    ELSE [i \in 1..lens[1] |-> "w"] \o <<" ">> \o Text(Tail(lens))

\* what faker.lorem.sentence() may return
Sentences == {Text(<<2, 3, 4>>), Text(<<5, 8>>), Text(<<3, 2, 2>>), Text(<<4, 4>>)}

\* the declared options of a String field: minlength and maxlength are absent
\* or the array [value, message]; match is absent or a letter-and-space pattern
StringOptions ==
    {o \in [minlength : {<< >>, <<3>>, <<10>>, <<12>>}, maxlength : {<< >>, <<12>>},
            match : BOOLEAN] :
        (IF o.minlength # << >> THEN o.minlength[1] ELSE DefaultMinLength)
            <= (IF o.maxlength # << >> THEN o.maxlength[1] ELSE DefaultMaxLength)}

\* if (text.length > maxLength) { text = text.substring(0, maxLength); cut at
\* text.lastIndexOf(' ') when it is above 0 }
Truncated(text, maxLength) ==
    IF Len(text) > maxLength
    THEN LET cut == SubSeq(text, 1, maxLength)
             spaces == {i \in 1..Len(cut) : cut[i] = " "}
             lastSpace == IF spaces = {} THEN -1
                          ELSE (CHOOSE i \in spaces : \A j \in spaces : j <= i) - 1
         IN IF lastSpace > 0 THEN SubSeq(cut, 1, lastSpace) ELSE cut
    ELSE text

\* generateFieldValue is entered for a String field
InitField ==
    /\ store = [i \in Ids |-> NoDoc]
    /\ nextId = 1
    /\ cfg \in {c \in Configs : ~c.def}
    /\ pipe = cfg.decl
    /\ proc = [p \in Procs |-> Idle]
    /\ zod = NoParse /\ registry = << >>
    /\ \E o \in StringOptions :
          field = [match |-> o.match,
                   minLength |-> IF o.minlength # << >> THEN o.minlength[1]
                                 ELSE DefaultMinLength,
                   maxLength |-> IF o.maxlength # << >> THEN o.maxlength[1]
                                 ELSE DefaultMaxLength,
                   text |-> << >>, pc |-> "sentence"]

\* let text = faker.lorem.sentence()
LoremSentence ==
    /\ field.pc = "sentence"
    /\ \E s \in Sentences : field' = [field EXCEPT !.text = s, !.pc = "while"]
    /\ UNCHANGED <<store, nextId, cfg, pipe, proc, zod, registry>>

\* while (text.length < minLength) text += ` ${faker.lorem.sentence()}`
AppendSentence ==
    /\ field.pc = "while" /\ Len(field.text) < field.minLength
    /\ \E s \in Sentences : field' = [field EXCEPT !.text = @ \o <<" ">> \o s]
    /\ UNCHANGED <<store, nextId, cfg, pipe, proc, zod, registry>>

\* the truncation and the return: text, or text.substring(0, maxLength / 3)
\* under a letter-and-space pattern
ReturnText ==
    /\ field.pc = "while" /\ Len(field.text) >= field.minLength
    /\ LET text == Truncated(field.text, field.maxLength)
       IN field' = [field EXCEPT
                       !.text = IF field.match
                                THEN SubSeq(text, 1, Min2(Len(text), field.maxLength \div 3))
                                ELSE text,
                       !.pc = "returned"]
    /\ UNCHANGED <<store, nextId, cfg, pipe, proc, zod, registry>>

FieldSpec == InitField /\ [][LoremSentence \/ AppendSentence \/ ReturnText]_vars

\* the first request was a create-dummy without a Content-Type header, which
\* the chain of the route refused before its handler: the state it leaves
Refused ==
    LET r == [Request("dummy", "missing", FALSE) EXCEPT !.cnt = 1, !.by = "contentType"]
    IN Respond(r, StageStatus("contentType"), << >>, NoName)

\* the server after that first request: the second is served on its own
InitServed ==
    /\ store \in InitStores
    /\ nextId = Cardinality(Existing(store)) + 1
    /\ cfg \in Configs
    /\ pipe = cfg.decl
    /\ proc = [p \in Procs |-> IF p = "r1" THEN Refused ELSE Idle]
    /\ zod = NoParse /\ registry = << >> /\ field = << >>

\* every storage command completes and the event loop runs the continuation
\* that awaits it; nothing obliges a client to send a request
FairSpec == InitServed /\ [][Next]_vars /\ \A p \in Procs : WF_vars(Serve(p))

\* ------------------------------------------------------------------ properties
Done(p) == proc[p].pc = "done"

\* the request is the only one received so far
Alone(p) == \A q \in Procs \ {p} : proc[q].pc = "idle"

\* the request passed its pre-checks and its write was put to the store
ReachedWrite(p) == proc[p].wrote \/ proc[p].rejected

\* C1: of two concurrent requests (two creates, or a create and an update of
\* another record) that carry the same value for a unique field and both reach
\* the write step, at most one write is admitted; a write the store rejects is
\* answered 409 and changes nothing; if neither is admitted a stored record
\* already holds what each was rejected for; no two records hold the same value.
C1_OneWriteAdmitted ==
    /\ \A i \in Existing(store), j \in Existing(store), f \in FieldSet :
          i # j => store[i][f] # store[j][f]
    /\ \A p \in Procs :
          proc[p].op \in {"create", "update"} /\ proc[p].rejected =>
              Done(p) /\ proc[p].st = CONFLICT /\ ~proc[p].wrote
    /\ \A p \in Procs, q \in Procs :
          (/\ p # q /\ Done(p) /\ Done(q)
           /\ proc[p].op = "create" /\ proc[q].op \in {"create", "update"}
           /\ ReachedWrite(p) /\ ReachedWrite(q)
           /\ proc[q].op = "update" => proc[q].id # proc[p].id
           /\ \E f \in FieldSet :
                 proc[p].body[f] # Absent /\ proc[p].body[f] = proc[q].body[f])
          => /\ ~(proc[p].wrote /\ proc[q].wrote)
             /\ (~proc[p].wrote /\ ~proc[q].wrote) =>
                   \A x \in {p, q} : \E j \in Existing(store) :
                       store[j][proc[x].named.f] = proc[x].named.v

\* two creates raced for one email: one was admitted, the store rejected the other
C1_Witness ==
    \E p \in Procs, q \in Procs :
        /\ p # q /\ Done(p) /\ Done(q)
        /\ proc[p].op = "create" /\ proc[q].op = "create"
        /\ Truthy(proc[p].body["email"]) /\ proc[p].body["email"] = proc[q].body["email"]
        /\ proc[p].wrote /\ proc[p].st = CREATED
        /\ proc[q].rejected /\ proc[q].st = CONFLICT

\* C2: an update served alone is answered 409 only when a record other than the
\* one being updated holds a unique value of the body.
C2_ConflictOnlyWithOtherRecord ==
    \A p \in Procs :
        (Done(p) /\ Alone(p) /\ proc[p].op = "update" /\ proc[p].by = "handler"
         /\ proc[p].st = CONFLICT)
        => \E f \in FieldSet, j \in Existing(store) \ {proc[p].id} :
               proc[p].body[f] # Absent /\ store[j][f] = proc[p].body[f]

\* C3: the pipeline array declared for each route is, at every moment, the one
\* that was registered: same stages, same order, same contents.
C3_PipelineAsRegistered == pipe = cfg.decl

\* C4: of two requests of the same kind (get, update or create) that target
\* different records, each one that succeeds carries its own record.
C4_OwnRecord ==
    \A p \in Procs, q \in Procs :
        (/\ p # q /\ Done(p) /\ proc[q].pc # "idle"
         /\ proc[p].op \in {"get", "update", "create"} /\ proc[q].op = proc[p].op
         /\ proc[p].by = "handler" /\ proc[q].by = "handler"
         /\ proc[q].id # proc[p].id
         /\ proc[p].st \in {OK, CREATED})
        => proc[p].data = <<proc[p].id>>

\* C5: a delete-many request answered 404 has removed no record.
C5_NotFoundDeletesNothing ==
    \A p \in Procs :
        Done(p) /\ proc[p].op = "deleteMany" /\ proc[p].st = NOT_FOUND
            => ~proc[p].wrote

\* delete-many was answered 404 for a list of which one record exists, and that
\* record is still there
C5_Witness ==
    \E p \in Procs :
        /\ Done(p) /\ proc[p].op = "deleteMany" /\ proc[p].st = NOT_FOUND
        /\ \E i \in SeqToSet(proc[p].ids) : store[i].ex
        /\ \E i \in SeqToSet(proc[p].ids) : ~store[i].ex

\* C6: the 404 answer of a delete-many request served alone names exactly the
\* requested ids that do not exist.
C6_NamesMissingIds ==
    \A p \in Procs :
        (Done(p) /\ Alone(p) /\ proc[p].op = "deleteMany" /\ proc[p].st = NOT_FOUND)
        => proc[p].named.ids = SeqToSet(proc[p].ids) \ Existing(store)

WriteOps == {"create", "update", "deleteOne", "deleteMany", "deleteAll"}

\* C7 as stated: create, update, delete-one, delete-many and delete-all never
\* answer an error status after having written.
C7_NoWriteOnError ==
    \A p \in Procs :
        Done(p) /\ proc[p].op \in WriteOps /\ proc[p].st >= BAD_REQUEST
            => ~proc[p].wrote

\* C7 amended: an error status is answered after a write only by the checks
\* that follow the write: create's 500 when the new record is not read back,
\* update's 404 when the record is not read back, delete-all's 500 when the
\* deleted count differs from the count found.
C7_ErrorAfterWriteOnlyFromRecheck ==
    \A p \in Procs :
        Done(p) /\ proc[p].op \in WriteOps /\ proc[p].st >= BAD_REQUEST /\ proc[p].wrote
            => \/ proc[p].op = "create" /\ proc[p].st = INTERNAL_SERVER_ERROR
               \/ proc[p].op = "update" /\ proc[p].st = NOT_FOUND
               \/ proc[p].op = "deleteAll" /\ proc[p].st = INTERNAL_SERVER_ERROR

\* an update read the store, was answered 409 and wrote nothing
C7_Witness ==
    \E p \in Procs :
        /\ Done(p) /\ proc[p].op = "update" /\ proc[p].touched
        /\ proc[p].st = CONFLICT /\ ~proc[p].wrote

\* the first unique field, in schema order, whose value in b a record other
\* than `self` holds; 0 if there is none
FirstColliding(s, self, b) ==
    LET coll == {i \in 1..Len(UniqueFields) :
                    /\ b[UniqueFields[i]] # Absent
                    /\ FindOne(s, UniqueFields[i], b[UniqueFields[i]]) \ {self} # {}}
    IN IF coll = {} THEN 0 ELSE CHOOSE i \in coll : \A j \in coll : i <= j

\* C8: a create served alone whose body carries a unique value that a stored
\* record holds is answered 409 naming the first such field, in schema order,
\* and the submitted value, and inserts nothing.
C8_ConflictNamesFirstField ==
    \A p \in Procs :
        (Done(p) /\ Alone(p) /\ proc[p].op = "create" /\ proc[p].by = "handler")
        => LET i == FirstColliding(store, proc[p].id, proc[p].body)
           IN i # 0 =>
                /\ proc[p].st = CONFLICT /\ ~proc[p].wrote
                /\ proc[p].named.f = UniqueFields[i]
                /\ proc[p].named.v = proc[p].body[UniqueFields[i]]

Content(st) == [kind |-> st.kind, m |-> st.m, n |-> st.n]

\* res is q with the criteria c merged in
MergedInto(q, c, res) ==
    IF \E i \in 1..Len(q) : q[i].kind = "match"
    THEN LET first == CHOOSE i \in 1..Len(q) :
                          q[i].kind = "match" /\ \A j \in 1..(i - 1) : q[j].kind # "match"
         IN /\ Len(res) = Len(q)
            /\ \A k \in (1..Len(q)) \ {first} : Content(res[k]) = Content(q[k])
            /\ res[first].kind = "match"
            /\ MatchKeys(res[first].m) = MatchKeys(q[first].m) \cup MatchKeys(c)
            /\ res[first].m.ids = IF c.hasId THEN c.ids ELSE q[first].m.ids
            /\ \A f \in FieldSet :
                  res[first].m.flt[f] =
                      IF c.flt[f] # Absent THEN c.flt[f] ELSE q[first].m.flt[f]
    ELSE /\ Len(res) = Len(q) + 1
         /\ Content(res[1]) = [kind |-> "match", m |-> c, n |-> 0]
         /\ \A k \in 1..Len(q) : Content(res[k + 1]) = Content(q[k])

\* C10: the step of a handler that merges its criteria into the route's stage
\* sequence hands the storage command that sequence with only its first filter
\* stage changed to the union of the declared keys and the criteria, the
\* criteria winning, or, without a filter stage, preceded by one new filter
\* stage holding exactly the criteria.
C10_MergeCriteria ==
    [][\A p \in Procs :
          (/\ proc[p].pc \notin {"aggregate", "aggregatePair"}
           /\ proc'[p].pc \in {"aggregate", "aggregatePair"})
          => LET r == proc'[p]
                 q == IF cfg.def THEN pipe[r.op] ELSE << >>
                 c == CASE r.op = "list" -> FltMatch(r.body)
                        [] r.op = "dummy" -> IdMatch(Existing(store') \ Existing(store))
                        [] OTHER -> IdMatch({r.id})
                 res == Resolve(r.lp, IF cfg.def THEN pipe'[r.op] ELSE << >>)
                 merged == IF r.op = "list" THEN SubSeq(res, 1, Len(res) - 3) ELSE res
             IN MergedInto(q, c, merged)]_vars

\* a list request holds a sequence whose first filter stage has the filter's
\* email instead of the declared one, and a get request one whose declared
\* empty filter stage received the id
C10_Witness ==
    \E p \in Procs, g \in Procs :
        /\ proc[p].op = "list" /\ proc[p].pc = "aggregatePair"
        /\ Len(cfg.decl["list"]) = 3
        /\ cfg.decl["list"][2].m.flt["email"] = "b"
        /\ proc[p].lp[2].m.flt["email"] = "a"
        /\ proc[p].lp[3].m = cfg.decl["list"][3].m
        /\ proc[g].op = "get" /\ proc[g].pc = "aggregate"
        /\ Resolve(proc[g].lp, pipe["get"])[1].m = IdMatch({proc[g].id})

\* ------------------------------------------------------------------ C11..C20
\* C11: on a route whose table declares no response pipeline, create, get by
\* id and update answer from the reference-population lookup and execute no
\* pipeline.
C11_PopulationWithoutPipeline ==
    \A p \in Procs :
        (~cfg.def /\ proc[p].op \in {"create", "get", "update"})
        => proc[p].pc # "aggregate"

\* the records the list of r selects before paging: those matching filterQuery,
\* and the criteria of the declared pipeline where one is configured
ListSelected(r) ==
    LET q == ResponsePipeline("list")
    IN IF Len(q) > 0 THEN Len(Aggregate(ListMerge(q, FltMatch(r.body)), << >>, store))
       ELSE Cardinality(Matching(store, r.body))

\* min(l, max(0, N - (p-1)*l))
PageSize(n, page, limit) == Min2(limit, Max2(0, n - (page - 1) * limit))

\* C12: with N records selected and no concurrent writes, a list request with
\* page p >= 1 and limit l >= 1 returns min(l, max(0, N - (p-1)*l)) records and
\* reports total = N and totalPages = ceil(N / l), with and without a pipeline.
C12_ListCounts ==
    \A p \in Procs :
        (/\ Done(p) /\ Alone(p) /\ proc[p].op = "list" /\ proc[p].by = "handler"
         /\ proc[p].limit >= 1)
        => LET r == proc[p]
               n == ListSelected(r)
           IN /\ Len(r.data) = PageSize(n, r.page, r.limit)
              /\ r.st = OK => /\ r.total = n
                              /\ r.totalPages = TotalPages(n, r.limit)

\* C13: whatever page and limit the query supplies, zero and negative ones
\* included, list returns at most limit records.
C13_AtMostLimit ==
    \A p \in Procs :
        (Done(p) /\ proc[p].op = "list" /\ proc[p].by = "handler")
        => Len(proc[p].data) <= proc[p].limit

\* C14: every response carries status.success and status.message, and a
\* successful list response carries the pagination object.
C14_UniformEnvelope ==
    \A p \in Procs :
        Done(p)
        => /\ {"status.success", "status.message"} \subseteq proc[p].payload
           /\ (proc[p].op = "list" /\ proc[p].st = OK) => "pagination" \in proc[p].payload

\* C15: delete-all answers 404 and deletes nothing when its snapshot of the
\* collection is empty; otherwise it deletes every record and answers 200 when
\* the number it deletes equals the number of the snapshot, 500 when a
\* concurrent insert or delete made the two differ.
C15_DeleteAllVerifiesCount ==
    [][\A p \in Procs :
          LET r == proc[p]
              n == Cardinality(Existing(store))
          IN (r.op = "deleteAll" /\ proc'[p] # r)
             => /\ (r.pc = "find" /\ n = 0)
                   => /\ proc'[p].pc = "done" /\ proc'[p].st = NOT_FOUND
                      /\ store' = store /\ ~proc'[p].wrote
                /\ (r.pc = "find" /\ n > 0)
                   => /\ proc'[p].pc = "deleteMany" /\ proc'[p].cnt = n
                      /\ store' = store
                /\ r.pc = "deleteMany"
                   => /\ Existing(store') = {}
                      /\ proc'[p].pc = "done"
                      /\ proc'[p].st = IF n = r.cnt THEN OK ELSE INTERNAL_SERVER_ERROR]_vars

\* a record was deleted or inserted between the snapshot and the delete, and
\* delete-all answered 500
C15_Witness ==
    \E p \in Procs, q \in Procs :
        /\ proc[p].op = "deleteAll" /\ Done(p) /\ proc[p].st = INTERNAL_SERVER_ERROR
        /\ proc[q].op \in {"deleteOne", "create"} /\ proc[q].wrote
        /\ Existing(store) = {}

\* C16: every request that reaches a route is eventually answered, a failure
\* with one of the statuses 400, 404, 409, 415, 500; none stays unanswered.
C16_EveryRequestAnswered ==
    /\ [](\A p \in Procs :
            Done(p) => proc[p].st \in {OK, CREATED, BAD_REQUEST, NOT_FOUND, CONFLICT,
                                       UNSUPPORTED_MEDIA_TYPE, INTERNAL_SERVER_ERROR})
    /\ \A p \in Procs : (proc[p].pc # "idle") ~> Done(p)

\* C17: delete-one of an id that is not in the store answers 404 and leaves
\* the store as it is; once a delete-one of an id has succeeded, every later
\* delete-one of that id answers 404; delete-one never answers 500.
C17_DeleteOneIdempotent ==
    [][\A p \in Procs :
          LET r == proc[p]
          IN (r.op = "deleteOne" /\ r.pc = "findByIdAndDelete" /\ proc'[p] # r)
             => /\ proc'[p].pc = "done"
                /\ proc'[p].st \in {OK, NOT_FOUND}
                /\ ~store[r.id].ex
                   => /\ proc'[p].st = NOT_FOUND
                      /\ store' = store /\ ~proc'[p].wrote
                /\ (\E q \in Procs \ {p} :
                       /\ proc[q].op = "deleteOne" /\ proc[q].id = r.id
                       /\ Done(q) /\ proc[q].st = OK)
                   => proc'[p].st = NOT_FOUND]_vars

\* an id was deleted and a later delete-one of that id was answered 404
C17_Witness ==
    /\ proc["r1"].op = "deleteOne" /\ Done("r1") /\ proc["r1"].st = OK
    /\ proc["r2"].op = "deleteOne" /\ proc["r2"].id = proc["r1"].id
    /\ Done("r2") /\ proc["r2"].st = NOT_FOUND /\ ~proc["r2"].wrote

C19_PartialBatchAnswered ==
    \A p \in Procs :
        (proc[p].op = "dummy" /\ proc[p].rejected)
        => \/ proc[p].pc \in {"aggregate", "populate"}
           \/ Done(p) /\ proc[p].st = CREATED

\* C20: for every schema definition and every field of a FieldSpec kind that
\* it marks required, a body that lacks the field and is otherwise well formed
\* is rejected by the create validator and accepted by the update validator.
C20_RequiredOnCreateOnly ==
    \A f \in FieldSet :
        (/\ zod.def[f].required = "yes" /\ zod.def[f].type \in FieldKinds
         /\ zod.data[f] = Absent
         /\ \A k \in ParseKeys : zod.data[k] # "bad"
         /\ zod.data["unknown"] = Absent)
        => zod.create # "accepted" /\ zod.update # "rejected"

\* a body without the required email went through both validators
C20_Witness ==
    /\ zod.def["email"].required = "yes" /\ zod.def["email"].type = "String"
    /\ zod.data["email"] = Absent /\ zod.data["nid"] = "ok"
    /\ zod.data["unknown"] = Absent
    /\ zod.create = "rejected" /\ zod.update = "accepted"

\* ------------------------------------------------------------------ C21..C30
\* C21: on a route that validates its data, a request that carries a key its
\* validator does not declare is answered 400 by the validator and its handler
\* is not run.
C21_UnknownKeyRejected ==
    \A p \in Procs :
        (proc[p].pc # "idle" /\ proc[p].extra /\ cfg.rules[proc[p].op].dv)
        => /\ proc[p].by # "handler"
           /\ proc[p].by = "validate" => proc[p].st = BAD_REQUEST

\* C22: registering a name that is already registered returns the definition
\* registered first, whatever schema the later call passes, and the registered
\* definition is never replaced.
C22_FirstRegistrationKept ==
    /\ DOMAIN registry.models = DOMAIN registry.first
    /\ \A n \in DOMAIN registry.first : registry.models[n] = registry.first[n]
    /\ \A k \in DOMAIN registry.calls :
          registry.calls[k].model = registry.first[registry.calls[k].name]

\* a name was registered again with another schema
C22_Witness ==
    \E k \in DOMAIN registry.calls :
        /\ registry.calls[k].passed # registry.first[registry.calls[k].name]
        /\ registry.calls[k].model = registry.first[registry.calls[k].name]

\* C23: every String value the generator returns has a length within the
\* field's minLength and maxLength (5 and 20 when not declared), for a field
\* without a pattern and for a field with a letter-and-space pattern.
C23_LengthWithinBounds ==
    field.pc = "returned"
    => /\ field.minLength <= Len(field.text)
       /\ Len(field.text) <= field.maxLength

\* C24: a delete-many request served alone is answered 404 only if one of the
\* requested ids does not exist; when every requested id exists, also in a list
\* that names an id twice, it is answered 200 and the requested records are gone.
C24_NotFoundIffMissing ==
    \A p \in Procs :
        (Done(p) /\ Alone(p) /\ proc[p].op = "deleteMany" /\ proc[p].by = "handler"
            /\ IdsSchemaOk(proc[p].ids))
        => /\ proc[p].st \in {OK, NOT_FOUND}
           /\ proc[p].st = NOT_FOUND => \E i \in SeqToSet(proc[p].ids) : ~store[i].ex
           /\ proc[p].st = OK => \A i \in SeqToSet(proc[p].ids) : ~store[i].ex

\* C25: a delete-many request whose id list is missing, empty or holds an
\* element that is not a well-formed identifier is answered 400 and deletes
\* nothing.
C25_BadIdListRefused ==
    \A p \in Procs :
        (proc[p].op = "deleteMany" /\ proc[p].by = "handler"
            /\ ~IdsSchemaOk(proc[p].ids))
        => Done(p) /\ proc[p].st = BAD_REQUEST /\ ~proc[p].wrote

C28_ValidatorOfOwnRoute ==
    \A p \in Procs :
        (proc[p].pc # "idle" /\ cfg.rules[proc[p].op].dv)
        => ValidationShape(proc[p].op)
               = ZodShape(proc[p].op, SchemaKind(Method(proc[p].op)))

C30_TwoReads ==
    /\ [](\A p \in Procs :
            (Done(p) /\ Alone(p) /\ proc[p].op = "list" /\ proc[p].st = OK)
            => Len(proc[p].data) <= proc[p].total)
    /\ [][\A p \in Procs :
            (proc[p].op = "list" /\ proc'[p] # proc[p])
            => LET r == proc[p]
                   t == proc'[p]
                   all == DescSeq(Matching(store, r.body))
                   from == (r.page - 1) * r.parsedLimit
                   counted == Cardinality({i \in Ids : i \in Matching(store, r.body)})
                   out == Aggregate(r.lp, << >>, store)
               IN /\ r.pc = "find"
                     => /\ t.pc = "countDocuments"
                        /\ t.data = SubSeq(all, from + 1, Min2(from + r.parsedLimit, Len(all)))
                  /\ (r.pc = "countDocuments" /\ t.st = OK)
                     => t.data = r.data /\ t.total = counted
                  /\ (r.pc = "aggregatePair" /\ r.got = "none")
                     => \/ t.got = "docs" /\ t.data = out
                        \/ t.got = "count" /\ t.total = Len(out)
                  /\ (r.pc = "aggregatePair" /\ r.got = "docs" /\ t.st = OK)
                     => t.data = r.data /\ t.total = Len(out)
                  /\ (r.pc = "aggregatePair" /\ r.got = "count" /\ t.st = OK)
                     => t.data = out /\ t.total = r.total]_vars

\* a record of the page was removed before the count: more records returned
\* than counted
C30_Witness ==
    \E p \in Procs :
        /\ Done(p) /\ proc[p].op = "list" /\ proc[p].st = OK
        /\ Len(proc[p].data) > proc[p].total

====
